---- MODULE Spec2Model ----
(***************************************************************************)
(* Model of retry.py: the jitter function, the Strategy iterator with its  *)
(* Linear and Backoff variants, and the retry decorator's wrapper loop.    *)
(*                                                                         *)
(* Delays.  Strategy attributes (interval, start_interval, max_interval,   *)
(* next_interval) and the value of next() are in the program's units.      *)
(* Everything that went through jitter() (the value __next__ yields, the   *)
(* wrapper's loop variable, the argument of time.sleep) is held in units   *)
(* of 1/Scale of the program's unit, so that the products with the spread  *)
(* and with the random draw stay integers.                                 *)
(***************************************************************************)
EXTENDS Integers, Sequences, FiniteSets, TLC

(* ---------------- bounds of the model ---------------- *)

\* max_attempts is drawn from 0..MaxAttemptsBound
MaxAttemptsBound == 7
\* Linear's interval and Backoff's start_interval are drawn from 1..MaxStart
MaxStart == 3
\* Backoff's max_interval is drawn from 1..MaxCeil and the default
MaxCeil == 3
\* jitter spreads are the fractions n/SpreadDen, n in -1..SpreadDen+1
SpreadDen == 2
\* rng.random() returns one of the fractions n/RandDen, n in 0..RandDen-1
RandDen == 4
\* the wrapped function is called at most MaxCalls times
MaxCalls == 2

(* ---------------- program constants ---------------- *)

DefaultInterval == 1
DefaultStartInterval == 1
DefaultMaxInterval == 60

Scale == SpreadDen * RandDen

Min(a, b) == IF a <= b THEN a ELSE b

RECURSIVE Pow2(_)
\* math.pow(2, k) for a natural k
Pow2(k) == IF k = 0 THEN 1 ELSE 2 * Pow2(k - 1)

(* ---------------- exceptions ---------------- *)

\* the classes the operation may raise, and the classes a matcher may name
Raisable == {"ValueError", "KeyError"}
Matchers == {"Exception", "ValueError"}

\* isinstance(an instance of cls, matcher): what `except exception:` tests
IsInstance(cls, matcher) == matcher = "Exception" \/ cls = matcher

\* a class object, and the instance raised by the n-th invocation
ClassObj(cls) == [kind |-> "class", cls |-> cls, n |-> 0]
Instance(cls, n) == [kind |-> "instance", cls |-> cls, n |-> n]

\* what one call of the operation does: return, or raise an instance of a class
Results == {"ok"} \cup Raisable

(* ---------------- jitter ---------------- *)

\* mutant of make_jitterer: the randomizing closure is returned for every
\* spread
make_jittererAlwaysJitter(spread) == "jitter"

\* make_jitterer: which closure is returned for spread n/SpreadDen
make_jitterer(spread) == IF spread = 0 THEN "no_jitter" ELSE "jitter"

\* mutant of ApplyJitter: the random number is not centred (random()*2)
ApplyJitterUncentred(fn, spread, rn, x) ==
    IF fn = "no_jitter"
    THEN [error |-> "none", value |-> x * Scale, rng |-> 0]
    ELSE IF ~(0 < spread /\ spread < SpreadDen)
    THEN [error |-> "NameError", value |-> 0, rng |-> 0]
    ELSE [error |-> "none",
          value |-> x * Scale + (2 * rn) * x * spread,
          rng |-> 1]

\* the closure applied to x, with rn/RandDen the value rng.random() would
\* return.  The value is in units of 1/Scale.
ApplyJitter(fn, spread, rn, x) ==
    IF fn = "no_jitter"
    THEN [error |-> "none", value |-> x * Scale, rng |-> 0]
    ELSE IF ~(0 < spread /\ spread < SpreadDen)
    THEN [error |-> "NameError", value |-> 0, rng |-> 0]
    ELSE [error |-> "none",
          value |-> x * Scale + (2 * rn - RandDen) * x * spread,
          rng |-> 1]

(* ---------------- strategies ---------------- *)

NoStrat ==
    [kind |-> "none", max_attempts |-> 0, attempt |-> 0, spread |-> 0,
     jitter |-> "no_jitter", exceptions |-> << >>, interval |-> 0,
     start_interval |-> 0, max_interval |-> 0, next_interval |-> 0]

\* Strategy.__init__
StrategyInit(kind, max_attempts, jitter_spread) ==
    LET spread == IF jitter_spread.given THEN jitter_spread.num ELSE 0
    IN  [NoStrat EXCEPT !.kind = kind,
                        !.max_attempts = max_attempts,
                        !.attempt = 0,
                        !.spread = spread,
                        !.jitter = make_jitterer(spread),
                        !.exceptions = << >>]

\* mutant of LinearInit: no default, an interval that was not given is 0
LinearInitNoDefault(c) ==
    [StrategyInit("Linear", c.max_attempts, c.jitter_spread) EXCEPT
        !.interval = IF c.interval.given THEN c.interval.num ELSE 0]

\* Linear.__init__
LinearInit(c) ==
    [StrategyInit("Linear", c.max_attempts, c.jitter_spread) EXCEPT
        !.interval = IF c.interval.given THEN c.interval.num
                     ELSE DefaultInterval]

\* Backoff.__init__
BackoffInit(c) ==
    [StrategyInit("Backoff", c.max_attempts, c.jitter_spread) EXCEPT
        !.start_interval = c.start_interval,
        !.max_interval = c.max_interval,
        !.next_interval = c.start_interval]

\* strategy(*retry_args, **retry_kwargs)
Construct(c) == IF c.strategy = "Linear" THEN LinearInit(c) ELSE BackoffInit(c)

\* mutant of LinearNext: the delay grows with the attempt number
LinearNextGrowing(s) == [ret |-> s.interval * s.attempt, self |-> s]

\* Linear.next: the returned value and the strategy afterwards
LinearNext(s) == [ret |-> s.interval, self |-> s]

\* mutant of BackoffNext: the exponent counts attempts from zero
BackoffNextZeroBased(s) ==
    LET t == IF s.next_interval < s.max_interval
             THEN [s EXCEPT !.next_interval =
                                Pow2(s.attempt - 1) * s.start_interval]
             ELSE s
    IN  [ret |-> Min(t.next_interval, t.max_interval), self |-> t]

\* mutant of BackoffNext: the ceiling is not applied to the returned value
BackoffNextNoCeiling(s) ==
    LET t == IF s.next_interval < s.max_interval
             THEN [s EXCEPT !.next_interval = Pow2(s.attempt) * s.start_interval]
             ELSE s
    IN  [ret |-> t.next_interval, self |-> t]

\* mutant of BackoffNext: the interval is recomputed at every call
BackoffNextAlwaysRecompute(s) ==
    LET t == [s EXCEPT !.next_interval = Pow2(s.attempt) * s.start_interval]
    IN  [ret |-> Min(t.next_interval, t.max_interval), self |-> t]

\* Backoff.next: the returned value and the strategy afterwards
BackoffNext(s) ==
    LET t == IF s.next_interval < s.max_interval
             THEN [s EXCEPT !.next_interval = Pow2(s.attempt) * s.start_interval]
             ELSE s
    IN  [ret |-> Min(t.next_interval, t.max_interval), self |-> t]

\* self.next(), dispatched on the variant
next(s) == IF s.kind = "Linear" THEN LinearNext(s) ELSE BackoffNext(s)

\* mutant of HasNext: one attempt too many
HasNextOffByOne(s) == s.attempt <= s.max_attempts

\* the test of Strategy.__next__: attempts are left
HasNext(s) == s.attempt < s.max_attempts

\* mutant of DunderNext: the jittered delay alone is yielded
DunderNextJitterOnly(s, rn) ==
    IF HasNext(s)
    THEN LET s1 == [s EXCEPT !.attempt = @ + 1]
             nx == next(s1)
             j  == ApplyJitter(s1.jitter, s1.spread, rn, nx.ret)
         IN  IF j.error # "none"
             THEN [signal |-> j.error, value |-> 0, raw |-> nx.ret,
                   jittered |-> 0, self |-> nx.self, rng |-> j.rng]
             ELSE [signal |-> "value", value |-> j.value,
                   raw |-> nx.ret, jittered |-> j.value, self |-> nx.self,
                   rng |-> j.rng]
    ELSE [signal |-> "StopIteration", value |-> 0, raw |-> 0, jittered |-> 0,
          self |-> s, rng |-> 0]

\* mutant of DunderNext: the exhausted iterator rewinds its counter
DunderNextRewinds(s, rn) ==
    IF HasNext(s)
    THEN LET s1 == [s EXCEPT !.attempt = @ + 1]
             nx == next(s1)
             j  == ApplyJitter(s1.jitter, s1.spread, rn, nx.ret)
         IN  IF j.error # "none"
             THEN [signal |-> j.error, value |-> 0, raw |-> nx.ret,
                   jittered |-> 0, self |-> nx.self, rng |-> j.rng]
             ELSE [signal |-> "value", value |-> nx.ret * Scale + j.value,
                   raw |-> nx.ret, jittered |-> j.value, self |-> nx.self,
                   rng |-> j.rng]
    ELSE [signal |-> "StopIteration", value |-> 0, raw |-> 0, jittered |-> 0,
          self |-> [s EXCEPT !.attempt = 0], rng |-> 0]

\* Strategy.__next__ with rn/RandDen the random draw available to jitter
DunderNext(s, rn) ==
    IF HasNext(s)
    THEN LET s1 == [s EXCEPT !.attempt = @ + 1]
             nx == next(s1)
             j  == ApplyJitter(s1.jitter, s1.spread, rn, nx.ret)
         IN  IF j.error # "none"
             THEN [signal |-> j.error, value |-> 0, raw |-> nx.ret,
                   jittered |-> 0, self |-> nx.self, rng |-> j.rng]
             ELSE [signal |-> "value", value |-> nx.ret * Scale + j.value,
                   raw |-> nx.ret, jittered |-> j.value, self |-> nx.self,
                   rng |-> j.rng]
    ELSE [signal |-> "StopIteration", value |-> 0, raw |-> 0, jittered |-> 0,
          self |-> s, rng |-> 0]

\* the attributes the strategy classes themselves carry (exceptions is set
\* on instances only, by Strategy.__init__)
ClassAttributes == {"__init__", "__iter__", "__next__", "next"}

(* ---------------- the wrapper ---------------- *)

\* mutant of Handle: the else branch falls through to the sleep
HandleSleepOnSuccess(res, s, exception) ==
    IF res = "ok"
    THEN [pc |-> "sleep", successful |-> TRUE, self |-> s]
    ELSE IF IsInstance(res, exception)
    THEN [pc |-> "sleep", successful |-> FALSE,
          self |-> [s EXCEPT !.exceptions = Append(@, ClassObj(exception))]]
    ELSE [pc |-> "done", successful |-> FALSE, self |-> s]

\* mutant of Handle: a bare except, every failure is retried
HandleCatchAll(res, s, exception) ==
    IF res = "ok"
    THEN [pc |-> "after_loop", successful |-> TRUE, self |-> s]
    ELSE [pc |-> "sleep", successful |-> FALSE,
          self |-> [s EXCEPT !.exceptions = Append(@, ClassObj(exception))]]

\* the try / except exception / else of the loop body, given what the
\* operation did
Handle(res, s, exception) ==
    IF res = "ok"
    THEN [pc |-> "after_loop", successful |-> TRUE, self |-> s]
    ELSE IF IsInstance(res, exception)
    THEN [pc |-> "sleep", successful |-> FALSE,
          self |-> [s EXCEPT !.exceptions = Append(@, ClassObj(exception))]]
    ELSE [pc |-> "done", successful |-> FALSE, self |-> s]

\* the statement after the loop
AfterLoop(ok, strategyClass, s) ==
    IF ok
    THEN [outcome |-> "Success", reasons |-> << >>]
    ELSE IF "exceptions" \in ClassAttributes
    THEN [outcome |-> "OperationFailed", reasons |-> s.exceptions]
    ELSE [outcome |-> "AttributeError", reasons |-> << >>]

VARIABLES
    cfg,          \* the arguments given to retry(...)
    pc,           \* position of func_wrapper
    strat,        \* the Strategy instance of the running call
    successful,   \* func_wrapper's flag
    interval,     \* func_wrapper's loop variable (units of 1/Scale)
    outcome,      \* how the call ended
    reasons,      \* reasons carried by OperationFailed
    raised,       \* instances caught by the except clause, in order
    last,         \* what the latest invocation of the operation did
    raw,          \* value of the latest self.next()
    pulls,        \* values yielded by the strategy in this call
    invocations,  \* invocations of the operation in this call
    sleeps,       \* calls of time.sleep in this call
    slept,        \* argument of the latest time.sleep (units of 1/Scale)
    rngCalls,     \* calls of rng.random() in this call
    stopped,      \* the strategy signalled StopIteration in this call
    jittered,     \* value of the latest self.jitter(...) (units of 1/Scale)
    calls         \* calls of the wrapped function so far

vars == << cfg, pc, strat, successful, interval, outcome, reasons, raised,
           last, raw, pulls, invocations, sleeps, slept, rngCalls, stopped,
           jittered, calls >>

Given(S) == {[given |-> TRUE, num |-> n] : n \in S}
Absent == [given |-> FALSE, num |-> 0]

SpreadArgs == {Absent} \cup Given(-1 .. SpreadDen + 1)

LinearConfigs ==
    [strategy : {"Linear"},
     interval : {Absent} \cup Given(1 .. MaxStart),
     start_interval : {DefaultStartInterval},
     max_interval : {DefaultMaxInterval},
     max_attempts : 0 .. MaxAttemptsBound,
     jitter_spread : SpreadArgs,
     exception : Matchers]

BackoffConfigs ==
    [strategy : {"Backoff"},
     interval : {Absent},
     start_interval : 1 .. MaxStart,
     max_interval : (1 .. MaxCeil) \cup {DefaultMaxInterval},
     max_attempts : 0 .. MaxAttemptsBound,
     jitter_spread : SpreadArgs,
     exception : Matchers]

Configs == LinearConfigs \cup BackoffConfigs

Init ==
    /\ cfg \in Configs
    /\ pc = "idle"
    /\ strat = NoStrat
    /\ successful = FALSE
    /\ interval = 0
    /\ outcome = "none"
    /\ reasons = << >>
    /\ raised = << >>
    /\ last = "none"
    /\ raw = 0
    /\ pulls = 0
    /\ invocations = 0
    /\ sleeps = 0
    /\ slept = 0
    /\ rngCalls = 0
    /\ stopped = FALSE
    /\ jittered = 0
    /\ calls = 0

\* mutant of Call: one strategy instance is built at the first call and
\* shared by the later ones
CallSharedStrategy ==
    /\ pc \in {"idle", "done"}
    /\ calls < MaxCalls
    /\ calls' = calls + 1
    /\ jittered' = 0
    /\ pc' = "pull"
    /\ strat' = IF strat.kind = "none" THEN Construct(cfg) ELSE strat
    /\ successful' = FALSE
    /\ interval' = 0
    /\ outcome' = "none"
    /\ reasons' = << >>
    /\ raised' = << >>
    /\ last' = "none"
    /\ raw' = 0
    /\ pulls' = 0
    /\ invocations' = 0
    /\ sleeps' = 0
    /\ slept' = 0
    /\ rngCalls' = 0
    /\ stopped' = FALSE
    /\ UNCHANGED cfg

\* func_wrapper is called: lines 105-107
Call ==
    /\ pc \in {"idle", "done"}
    /\ calls < MaxCalls
    /\ calls' = calls + 1
    /\ jittered' = 0
    /\ pc' = "pull"
    /\ strat' = Construct(cfg)
    /\ successful' = FALSE
    /\ interval' = 0
    /\ outcome' = "none"
    /\ reasons' = << >>
    /\ raised' = << >>
    /\ last' = "none"
    /\ raw' = 0
    /\ pulls' = 0
    /\ invocations' = 0
    /\ sleeps' = 0
    /\ slept' = 0
    /\ rngCalls' = 0
    /\ stopped' = FALSE
    /\ UNCHANGED cfg

\* mutant of Pull: the exhausted iterator blocks, the loop never ends
PullBlocksAtEnd ==
    /\ pc = "pull"
    /\ \E rn \in 0 .. RandDen - 1 :
         LET r == DunderNext(strat, rn)
         IN  /\ strat' = r.self
             /\ rngCalls' = rngCalls + r.rng
             /\ raw' = IF r.signal = "StopIteration" THEN raw ELSE r.raw
             /\ jittered' = IF r.signal = "value" THEN r.jittered ELSE jittered
             /\ IF r.signal = "value"
                THEN /\ interval' = r.value
                     /\ pulls' = pulls + 1
                     /\ pc' = "invoke"
                     /\ UNCHANGED << outcome, stopped >>
                ELSE IF r.signal = "StopIteration"
                THEN UNCHANGED << pc, stopped, interval, pulls, outcome >>
                ELSE /\ pc' = "done"
                     /\ outcome' = r.signal
                     /\ UNCHANGED << interval, pulls, stopped >>
    /\ UNCHANGED << cfg, successful, reasons, raised, last, invocations,
                    sleeps, slept, calls >>

\* `for interval in strat`: one pull of the strategy
Pull ==
    /\ pc = "pull"
    /\ \E rn \in 0 .. RandDen - 1 :
         LET r == DunderNext(strat, rn)
         IN  /\ strat' = r.self
             /\ rngCalls' = rngCalls + r.rng
             /\ raw' = IF r.signal = "StopIteration" THEN raw ELSE r.raw
             /\ jittered' = IF r.signal = "value" THEN r.jittered ELSE jittered
             /\ IF r.signal = "value"
                THEN /\ interval' = r.value
                     /\ pulls' = pulls + 1
                     /\ pc' = "invoke"
                     /\ UNCHANGED << outcome, stopped >>
                ELSE IF r.signal = "StopIteration"
                THEN /\ pc' = "after_loop"
                     /\ stopped' = TRUE
                     /\ UNCHANGED << interval, pulls, outcome >>
                ELSE /\ pc' = "done"
                     /\ outcome' = r.signal
                     /\ UNCHANGED << interval, pulls, stopped >>
    /\ UNCHANGED << cfg, successful, reasons, raised, last, invocations,
                    sleeps, slept, calls >>

\* the loop body up to the sleep: func is called and its result handled
Invoke ==
    /\ pc = "invoke"
    /\ \E res \in Results :
         LET h == Handle(res, strat, cfg.exception)
         IN  /\ invocations' = invocations + 1
             /\ last' = res
             /\ pc' = h.pc
             /\ successful' = h.successful
             /\ strat' = h.self
             /\ raised' = IF h.pc = "sleep"
                          THEN Append(raised, Instance(res, invocations + 1))
                          ELSE raised
             /\ outcome' = IF h.pc = "done" THEN "Propagated" ELSE outcome
    /\ UNCHANGED << cfg, interval, reasons, raw, pulls, sleeps, slept,
                    rngCalls, stopped, jittered, calls >>

\* time.sleep(interval); continue
Sleep ==
    /\ pc = "sleep"
    /\ sleeps' = sleeps + 1
    /\ slept' = interval
    /\ pc' = "pull"
    /\ UNCHANGED << cfg, strat, successful, interval, outcome, reasons,
                    raised, last, raw, pulls, invocations, rngCalls, stopped,
                    jittered, calls >>

\* lines 118-119: the loop is over
Finish ==
    /\ pc = "after_loop"
    /\ LET a == AfterLoop(successful, cfg.strategy, strat)
       IN  /\ outcome' = a.outcome
           /\ reasons' = a.reasons
    /\ pc' = "done"
    /\ UNCHANGED << cfg, strat, successful, interval, raised, last, raw,
                    pulls, invocations, sleeps, slept, rngCalls, stopped,
                    jittered, calls >>

Next == Call \/ Pull \/ Invoke \/ Sleep \/ Finish

Spec == Init /\ [][Next]_vars

\* a call that was made runs on: the interpreter executes func_wrapper's next
\* statement, and every invocation of the operation and every sleep returns
Fairness ==
    /\ WF_vars(Pull)
    /\ WF_vars(Invoke)
    /\ WF_vars(Sleep)
    /\ WF_vars(Finish)

\* the configurations termination is checked for: both strategies with
\* their default delays, every max_attempts, both matchers, and a spread that
\* is absent, valid (1/SpreadDen) or invalid (1)
LiveConfigs ==
    {c \in Configs :
        /\ ~c.interval.given
        /\ c.start_interval = DefaultStartInterval
        /\ c.max_interval = DefaultMaxInterval
        /\ c.jitter_spread \in {Absent} \cup Given({1, SpreadDen})}

LiveInit == Init /\ cfg \in LiveConfigs

LiveSpec == LiveInit /\ [][Next]_vars /\ Fairness

(* ======================= properties ======================= *)

\* the interval a Linear strategy is configured with
ConfiguredInterval ==
    IF cfg.interval.given THEN cfg.interval.num ELSE DefaultInterval

\* C1: the operation is invoked exactly once per delay pulled from the
\* strategy (a pulled delay is pending only while the operation is about to
\* be invoked), and the invocations of a run never exceed max_attempts.
C1_OneInvocationPerPull ==
    /\ invocations <= cfg.max_attempts
    /\ pulls = invocations + (IF pc = "invoke" THEN 1 ELSE 0)

C1_Witness ==
    /\ pc = "done"
    /\ stopped
    /\ cfg.max_attempts >= 2
    /\ invocations = cfg.max_attempts
    /\ pulls = cfg.max_attempts

\* C2: when every invocation raises a retryable failure and max_attempts is
\* n >= 1, the finished run has slept exactly n-1 times (no sleep after the
\* final failed attempt).
C2_SleepsOneLessThanAttempts ==
    (/\ pc = "done"
     /\ stopped
     /\ cfg.max_attempts >= 1
     /\ Len(raised) = cfg.max_attempts)
    => sleeps = cfg.max_attempts - 1

\* C3: when the strategy's sequence ends without a success, the run ends in
\* OperationFailed carrying as many recorded causes as attempts failed.
C3_ExhaustedCarriesCauses ==
    (pc = "done" /\ stopped)
    => /\ outcome = "OperationFailed"
       /\ Len(reasons) = Len(raised)

\* C4: once an invocation succeeds the wrapper stops with Success: the delay
\* pulled for that attempt is not slept on (sleeps stay one behind the
\* invocations), and no invocation, sleep or pull follows in that run; a
\* success on the first call means one invocation and zero sleeps.
C4_SuccessStops ==
    /\ [](last = "ok" =>
            /\ successful
            /\ pc \in {"after_loop", "done"}
            /\ pulls = invocations
            /\ sleeps = invocations - 1
            /\ (pc = "done" => outcome = "Success"))
    /\ [][(last = "ok" /\ last' = "ok") =>
            UNCHANGED << invocations, sleeps, slept, pulls, strat >>]_vars

C4_Witness ==
    /\ pc = "done"
    /\ outcome = "Success"
    /\ invocations = 1
    /\ sleeps = 0
    /\ interval > 0

\* C5: when an invocation fails with a class the matcher does not match, the
\* run is over at once with that failure propagated: it was not slept on, it
\* was not recorded, and the outcome is not OperationFailed.
C5_NonRetryablePropagates ==
    (last \in Raisable /\ ~IsInstance(last, cfg.exception))
    => /\ pc = "done"
       /\ outcome = "Propagated"
       /\ sleeps = invocations - 1
       /\ Len(strat.exceptions) = invocations - 1
       /\ Len(raised) = invocations - 1
       /\ reasons = << >>

C5_Witness ==
    /\ outcome = "Propagated"
    /\ last = "KeyError"
    /\ cfg.exception = "ValueError"
    /\ invocations >= 2

\* C6: with max_attempts = 0 the run makes no invocation and no sleep and
\* ends in OperationFailed carrying an empty cause list.
C6_ZeroAttemptsExhausted ==
    (cfg.max_attempts = 0 /\ pc = "done")
    => /\ invocations = 0
       /\ sleeps = 0
       /\ outcome = "OperationFailed"
       /\ reasons = << >>

\* C7: position i of the recorded cause list holds the failure actually
\* raised by the i-th failed attempt.
C7_CausesAreTheRaisedFailures ==
    /\ Len(strat.exceptions) = Len(raised)
    /\ \A i \in 1 .. Len(raised) : strat.exceptions[i] = raised[i]

\* C8: the raw value Backoff.next() produces at the k-th pull is
\* min(2^k * start_interval, max_interval); with start_interval 1 and
\* max_interval 60 the first seven raw values are 2, 4, 8, 16, 32, 60, 60.
C8_BackoffRawDelay ==
    (strat.kind = "Backoff" /\ strat.attempt >= 1)
    => /\ raw = Min(Pow2(strat.attempt) * cfg.start_interval,
                    cfg.max_interval)
       /\ (/\ cfg.start_interval = 1
           /\ cfg.max_interval = 60
           /\ strat.attempt <= 7)
          => raw = << 2, 4, 8, 16, 32, 60, 60 >>[strat.attempt]

C8_Witness ==
    /\ strat.kind = "Backoff"
    /\ cfg.start_interval = 1
    /\ cfg.max_interval = 60
    /\ strat.attempt = 7
    /\ raw = 60

\* C9: a Backoff constructed with start_interval >= max_interval returns
\* max_interval as the raw delay at every attempt, the first included.
C9_BackoffStartAtCeiling ==
    (/\ strat.kind = "Backoff"
     /\ cfg.start_interval >= cfg.max_interval
     /\ strat.attempt >= 1)
    => raw = cfg.max_interval

C9_Witness ==
    /\ strat.kind = "Backoff"
    /\ cfg.start_interval > cfg.max_interval
    /\ strat.attempt = 1
    /\ raw = cfg.max_interval
    /\ pc = "invoke"

\* C10: Linear.next() returns the configured interval at every pull,
\* whatever the attempt count, and a pull of a Linear strategy changes
\* nothing of the strategy but the attempt counter of __next__.
C10_LinearConstant ==
    /\ []((strat.kind = "Linear" /\ strat.attempt >= 1)
            => /\ raw = ConfiguredInterval
               /\ strat.interval = ConfiguredInterval)
    /\ [][(pc = "pull" /\ strat.kind = "Linear")
            => strat' = [strat EXCEPT !.attempt = strat'.attempt]]_vars

C10_Witness ==
    /\ strat.kind = "Linear"
    /\ cfg.interval.given
    /\ cfg.interval.num = 2
    /\ strat.attempt = 3
    /\ raw = 2

\* the spread the run is configured with, as a numerator over SpreadDen
ConfiguredSpread ==
    IF cfg.jitter_spread.given THEN cfg.jitter_spread.num ELSE 0

\* the configured spread is a fraction in [0, 1)
ValidSpread == 0 <= ConfiguredSpread /\ ConfiguredSpread < SpreadDen

\* C11: with a spread strictly between 0 and 1, every call of jitter on a
\* raw delay x drew one value from the random source (one draw per pulled
\* delay) and returned a value in [x*(1-spread), x*(1+spread)).
C11_JitterRange ==
    (/\ 0 < ConfiguredSpread
     /\ ConfiguredSpread < SpreadDen
     /\ pulls >= 1)
    => /\ rngCalls = pulls
       /\ raw > 0
       /\ raw * RandDen * (SpreadDen - ConfiguredSpread) <= jittered
       /\ jittered < raw * RandDen * (SpreadDen + ConfiguredSpread)

C11_Witness ==
    /\ ConfiguredSpread = 1
    /\ pulls = 3
    /\ rngCalls = 3
    /\ raw = 3
    /\ jittered = 3 * RandDen * (SpreadDen - 1)

\* C12: with spread 0 (given as 0 or not given) jitter is the identity on
\* every raw delay pulled, it raises nothing, and the random source is never
\* called, over any number of pulls.
C12_NoJitterIdentity ==
    (ConfiguredSpread = 0)
    => /\ rngCalls = 0
       /\ outcome # "NameError"
       /\ strat.attempt = pulls
       /\ (pulls >= 1 => jittered = raw * Scale)

C12_Witness ==
    /\ ~cfg.jitter_spread.given
    /\ pulls = 3
    /\ raw = 2
    /\ jittered = 2 * Scale
    /\ rngCalls = 0

\* C13: construction with a spread outside [0, 1) does not succeed: no
\* strategy exists whose spread is invalid, and the spread check raises
\* nothing while delays are pulled.
C13_InvalidSpreadRejectedAtConstruction ==
    /\ strat.kind # "none" => ValidSpread
    /\ outcome # "NameError"

\* C14: a run whose spread is outside [0, 1) ends with the error of the
\* spread check before any attempt: no invocation, no sleep, and not by
\* success or exhaustion of the strategy.
C14_InvalidSpreadFailsBeforeAttempts ==
    (~ValidSpread /\ pc = "done")
    => /\ invocations = 0
       /\ sleeps = 0
       /\ ~stopped
       /\ outcome = "NameError"

C17_FreshStrategyPerCall ==
    /\ []((pc # "idle") =>
            /\ strat.attempt = pulls + (IF outcome = "NameError" THEN 1 ELSE 0)
            /\ Len(strat.exceptions) = Len(raised)
            /\ (stopped => invocations = cfg.max_attempts))
    /\ [][(pc \in {"idle", "done"} /\ pc' = "pull") =>
            /\ strat'.attempt = 0
            /\ strat'.exceptions = << >>
            /\ strat'.max_attempts = cfg.max_attempts
            /\ (cfg.strategy = "Backoff" =>
                    strat'.next_interval = cfg.start_interval)]_vars

C17_Witness ==
    /\ calls = 2
    /\ pc = "done"
    /\ stopped
    /\ cfg.strategy = "Backoff"
    /\ cfg.max_attempts = 3
    /\ invocations = 3
    /\ Len(strat.exceptions) = 3

\* C18: attempt never exceeds max_attempts; a pull with attempts left adds
\* exactly one to attempt; a pull of a strategy with attempt = max_attempts
\* signals StopIteration, yields nothing, raises nothing and leaves the
\* strategy as it was.
C18_AttemptBounded ==
    /\ [](/\ strat.attempt <= strat.max_attempts
          /\ (strat.kind # "none" /\ strat.attempt = strat.max_attempts) =>
                \A rn \in 0 .. RandDen - 1 :
                    /\ DunderNext(strat, rn).signal = "StopIteration"
                    /\ DunderNext(strat, rn).self = strat)
    /\ [][(pc = "pull") =>
            IF strat.attempt < strat.max_attempts
            THEN strat'.attempt = strat.attempt + 1
            ELSE /\ strat' = strat
                 /\ pc' = "after_loop"
                 /\ outcome' = outcome
                 /\ pulls' = pulls
                 /\ interval' = interval]_vars

C18_Witness ==
    /\ pc = "after_loop"
    /\ stopped
    /\ strat.kind = "Backoff"
    /\ strat.max_attempts = 3
    /\ strat.attempt = 3
    /\ strat.next_interval = 8

\* C19: once Backoff.next() has returned max_interval, the next pull returns
\* max_interval again, and so would a call of next() under any value of
\* attempt; the raw delay never decreases within a call and never exceeds
\* max_interval.
C19_BackoffStaysClamped ==
    /\ []((strat.kind = "Backoff" /\ strat.attempt >= 1) =>
            /\ raw <= strat.max_interval
            /\ (raw = strat.max_interval =>
                  \A a \in 0 .. MaxAttemptsBound :
                     BackoffNext([strat EXCEPT !.attempt = a]).ret
                        = strat.max_interval))
    /\ [][(pc = "pull" /\ strat.kind = "Backoff") =>
            /\ raw' >= raw
            /\ (strat.attempt >= 1 /\ raw = strat.max_interval) =>
                  raw' = strat.max_interval]_vars

C19_Witness ==
    /\ strat.kind = "Backoff"
    /\ cfg.start_interval = 1
    /\ cfg.max_interval = 3
    /\ strat.attempt = 4
    /\ raw = 3
    /\ pc = "invoke"

====
